---- MODULE Spec2Model ----
(***************************************************************************)
(* Session Transport & Live Sync of openclaw-chat: the Session Tailer and  *)
(* Tailer Registry (src-tauri/src/watcher.rs), the Log Store and Message   *)
(* Codec (src-tauri/src/openclaw.rs) and the Remote Link                   *)
(* (src-tauri/src/ssh.rs, commands of src-tauri/src/lib.rs).               *)
(*                                                                         *)
(* A log file is a sequence of bytes.  One JSON record is two bytes wide   *)
(* in the model: an "obj" byte that carries the record up to its closing   *)
(* brace, and the "close" byte; a record is parseable only when both are   *)
(* present, which is what makes a half-written line unparseable.  The      *)
(* line terminator is the "nl" byte.                                       *)
(***************************************************************************)
EXTENDS Integers, Sequences, FiniteSets, TLC

\* ------------------------------------------------------------------ bounds
MaxCalls == 2          \* watch_session calls in one behaviour
MaxLines == 2          \* records the writers put into the logs, all sessions together
MaxPending == 1        \* queued change notifications of one watch
MaxProcs == 2          \* concurrent callers of the Remote Link
MaxText == 2           \* characters of a text given to the codec or the command builder
MaxSends == 2          \* cmd_send_message calls that write to a local log

Sessions == {"s1", "s2"}
Calls == 1..MaxCalls
Procs == 1..MaxProcs
Configs == {"default", "other"}
ConnIds == {1, 2}
\* an openssh::Session: the connection and the destination it was opened to
Conn(id, dest) == [id |-> id, dest |-> dest]
Conns == {Conn(id, dest) : id \in ConnIds, dest \in Configs}

VARIABLES
  file,        \* file[s]: bytes of the session log (<<>>: absent or empty)
  file_offsets,     \* WatcherState.file_offsets: session -> <<>> or <<offset>>
  watchers,    \* WatcherState.watchers: session -> 0 (no entry) or the call that made the handle
  call,        \* call[c]: one watch_session invocation, its watcher, channel and task
  delivered,   \* delivered[s]: "chat:message" events emitted for the session, in order
  status,      \* SshSession.status
  session,     \* SshSession.session: <<>> or <<connection>>
  open,        \* ids of the connections that are open on the remote host
  config,      \* SshSession.config
  lock,        \* holder of the SharedSshSession mutex, 0 when free
  proc,        \* proc[p]: one caller of the commands of lib.rs and its position
  ret,         \* result of the last command that returned
  remote_mode, \* AppState.remote_mode
  written,     \* written[s]: the messages append_message was called with, in call order
  chat,        \* Message Codec: a ChatMessage,
  encoded,     \*   <<>> or <<its encoded line>>,
  decoded,     \*   <<>> or <<what parse_jsonl_line made of the line>>
  prompt,      \* send_message_remote: the message text,
  command,     \*   <<>> or <<the command string built for it>>,
  words,       \*   <<>> or <<what a POSIX shell splits the command into>>
  state_lock,  \* holder of the Mutex<WatcherState>, <<>> when free
  offsets_lock \* holder of the Mutex of file_offsets, <<>> when free

tailVars == <<file, written, file_offsets, watchers, call, delivered>>
linkVars == <<status, session, open, config, lock, proc, ret>>
pureVars == <<remote_mode, chat, encoded, decoded, prompt, command, words>>
lockVars == <<state_lock, offsets_lock>>
vars == <<file, written, file_offsets, watchers, call, delivered,
          status, session, open, config, lock, proc, ret,
          remote_mode, chat, encoded, decoded, prompt, command, words,
          state_lock, offsets_lock>>

\* ------------------------------------------------------------ Message Codec
None == <<>>
Some(x) == <<x>>

NL == <<"nl">>
Close == <<"close">>
Obj(json) == <<"obj", json>>

ChatMessage(role, content) == [role |-> role, content |-> content]

\* the JSON value append_message builds (serde_json::json!)
JsonOf(msg) ==
  [type |-> "message",
   message |-> Some([role |-> msg.role,
                     content |-> <<[type |-> "text", text |-> Some(msg.content)]>>])]

\* characters of a text are numbers: 10, 34, 92 and 110 are the line feed,
\* the double quote, the backslash and the letter n; every other number is
\* an ordinary character
LF == 10
Quote == 34
Backslash == 92
LetterN == 110

\* serde_json writing a string: line feed, quote and backslash are escaped
RECURSIVE Escape(_)
Escape(text) ==
  IF text = <<>> THEN <<>>
  ELSE LET c == Head(text)
       IN (IF c = LF THEN <<Backslash, LetterN>>
           ELSE IF c = Quote \/ c = Backslash THEN <<Backslash, c>>
           ELSE <<c>>) \o Escape(Tail(text))

\* serde_json reading a string: a raw line feed, a bare quote or an unknown
\* escape is an error (<<>>), otherwise <<the text>>
RECURSIVE Unescape(_)
Unescape(text) ==
  IF text = <<>> THEN Some(<<>>)
  ELSE IF Head(text) = LF \/ Head(text) = Quote THEN None
  ELSE IF Head(text) = Backslash
  THEN IF Len(text) < 2 THEN None
       ELSE IF text[2] \notin {Quote, Backslash, LetterN} THEN None
       ELSE LET rest == Unescape(Tail(Tail(text)))
            IN IF rest = None THEN None
               ELSE Some(<<IF text[2] = LetterN THEN LF ELSE text[2]>> \o rest[1])
  ELSE LET rest == Unescape(Tail(text))
       IN IF rest = None THEN None ELSE Some(<<Head(text)>> \o rest[1])

\* the record written with its texts as they are
to_string_raw(json) == json

\* serde_json::to_string: the record with its texts written as JSON strings
to_string(json) ==
  [type |-> json.type,
   message |->
     IF json.message = None THEN None
     ELSE Some([role |-> json.message[1].role,
                content |-> [i \in DOMAIN json.message[1].content |->
                               LET c == json.message[1].content[i]
                               IN [type |-> c.type,
                                   text |-> IF c.text = None THEN None
                                            ELSE Some(Escape(c.text[1]))]]])]

\* serde_json::from_str: <<>> if a string of the record does not read
from_str(payload) ==
  IF payload.message = None THEN Some(payload)
  ELSE LET inner == payload.message[1]
           texts == [i \in DOMAIN inner.content |->
                       IF inner.content[i].text = None THEN Some(None)
                       ELSE LET u == Unescape(inner.content[i].text[1])
                            IN IF u = None THEN None ELSE Some(u)]
       IN IF \E i \in DOMAIN texts : texts[i] = None THEN None
          ELSE Some([type |-> payload.type,
                     message |-> Some([role |-> inner.role,
                                       content |-> [i \in DOMAIN inner.content |->
                                                      [type |-> inner.content[i].type,
                                                       text |-> texts[i][1]]]])])

\* the line append_message writes, without its terminator
encodeLine(msg) == <<Obj(to_string(JsonOf(msg))), Close>>

RECURSIVE JoinTexts(_)
JoinTexts(segs) ==
  IF segs = <<>> THEN <<>>
  ELSE LET c == Head(segs)
       IN (IF c.type = "text" /\ c.text # None THEN c.text[1] ELSE <<>>)
          \o JoinTexts(Tail(segs))

parse_jsonl_line(line) ==
  IF ~(Len(line) = 2 /\ line[1][1] = "obj" /\ line[2][1] = "close") THEN None
  ELSE IF from_str(line[1][2]) = None THEN None
  ELSE LET parsed == from_str(line[1][2])[1]
       IN IF parsed.type # "message" THEN None
          ELSE IF parsed.message = None THEN None
          ELSE LET inner == parsed.message[1]
                   text == JoinTexts(inner.content)
               IN IF inner.role # "user" /\ inner.role # "assistant" THEN None
                  ELSE IF text = <<>> THEN None
                  ELSE Some(ChatMessage(inner.role, text))

\* str::lines(): split at "nl"; a final line without terminator is a line too
RECURSIVE LinesAcc(_, _)
LinesAcc(bytes, cur) ==
  IF bytes = <<>> THEN (IF cur = <<>> THEN <<>> ELSE <<cur>>)
  ELSE IF Head(bytes)[1] = "nl" THEN <<cur>> \o LinesAcc(Tail(bytes), <<>>)
  ELSE LinesAcc(Tail(bytes), Append(cur, Head(bytes)))

Lines(bytes) == LinesAcc(bytes, <<>>)

\* the loop over lines of watch_session and of the delivery task:
\* every line adds its length plus one to the offset and is emitted if it parses
RECURSIVE ScanLines(_, _, _)
ScanLines(ls, off, msgs) ==
  IF ls = <<>> THEN [offset |-> off, msgs |-> msgs]
  ELSE LET line == Head(ls)
           m == parse_jsonl_line(line)
       IN ScanLines(Tail(ls), off + Len(line) + 1,
                    IF m = None THEN msgs ELSE Append(msgs, m[1]))

\* the tail read without the slice at the current offset
ScanWhole(bytes, from) == ScanLines(Lines(bytes), from, <<>>)

\* the tail read: the content from the current offset on is split into
\* lines (once) and the lines are scanned
Scan(bytes, from) ==
  CHOOSE r \in {ScanLines(ls, from, <<>>) : ls \in {Lines(SubSeq(bytes, from + 1, Len(bytes)))}} : TRUE

\* ------------------------------------------------------------------ helpers
Min(a, b) == IF a < b THEN a ELSE b

\* Path::exists(): the log is created by its first write
PathExists(s) == Len(file[s]) > 0

\* records (complete or not) already begun in the log
RECURSIVE ObjCount(_)
ObjCount(bytes) ==
  IF bytes = <<>> THEN 0
  ELSE (IF Head(bytes)[1] = "obj" THEN 1 ELSE 0) + ObjCount(Tail(bytes))

Written == LET Sum[S \in SUBSET Sessions] ==
                 IF S = {} THEN 0
                 ELSE LET s == CHOOSE x \in S : TRUE IN ObjCount(file[s]) + Sum[S \ {s}]
           IN Sum[Sessions]

AtLineStart(bytes) == IF bytes = <<>> THEN TRUE ELSE bytes[Len(bytes)][1] = "nl"

Events(msgs, c, phase) == [i \in 1..Len(msgs) |-> [msg |-> msgs[i], by |-> c, phase |-> phase]]

\* err: the last read_to_string of the task failed
IdleCall == [pc |-> "idle", sess |-> "s1", init |-> 0, live |-> FALSE,
             chan |-> 0, tpc |-> "none", tnew |-> 0, fresh |-> FALSE, err |-> FALSE]

NoRet == [op |-> "none", ok |-> TRUE, val |-> "none"]

\* the notify watcher's callback: tx.blocking_send(()) on every event of the
\* watched directory; all session logs of the agent live in that directory
Signal(k) == IF k.live THEN [k EXCEPT !.chan = Min(k.chan + 1, MaxPending)] ELSE k

\* a write to the log of session s: every watcher of the directory is
\* signalled, and what the calls on s have read is no longer the whole file
Touch(k, s) == IF k.sess = s THEN [Signal(k) EXCEPT !.fresh = FALSE] ELSE Signal(k)

\* a dropped RecommendedWatcher that keeps its callback
Drop_kept(k) == k

\* dropping a RecommendedWatcher drops its callback and with it the sender
Drop(k) == [k EXCEPT !.live = FALSE]

\* --------------------------------------------------------------- Log Store
\* the k-th record written to a log
RecordMsg(k) == ChatMessage(IF k % 2 = 1 THEN "user" ELSE "assistant", <<k>>)

Record(k, kind) ==
  IF kind = "message" THEN JsonOf(RecordMsg(k)) ELSE [type |-> kind, message |-> None]

LineKinds == {"message", "session"}

\* append_message, or the agent process, writing one whole line in one write
append_message(s, kind) ==
  /\ AtLineStart(file[s])
  /\ Written < MaxLines
  /\ file' = [file EXCEPT ![s] = @ \o <<Obj(to_string(Record(ObjCount(@) + 1, kind))), Close, NL>>]
  /\ written' = [written EXCEPT ![s] = IF kind = "message"
                                        THEN Append(@, RecordMsg(ObjCount(file[s]) + 1))
                                        ELSE @]
  /\ call' = [c \in Calls |-> Touch(call[c], s)]
  /\ UNCHANGED <<file_offsets, watchers, delivered>>
  /\ UNCHANGED <<linkVars, pureVars, lockVars>>

\* the same line reaching the file in several writes: write_fmt issues one
\* write per piece, and a write may be short
NextByte(bytes, kind) ==
  IF AtLineStart(bytes) THEN Obj(to_string(Record(ObjCount(bytes) + 1, kind)))
  ELSE IF bytes[Len(bytes)][1] = "obj" THEN Close
  ELSE NL

append_message_part(s) ==
  /\ AtLineStart(file[s]) => Written < MaxLines
  /\ file' = [file EXCEPT ![s] = Append(@, NextByte(@, "message"))]
  /\ written' = [written EXCEPT ![s] = IF NextByte(file[s], "message") = NL
                                        THEN Append(@, RecordMsg(ObjCount(file[s])))
                                        ELSE @]
  /\ call' = [c \in Calls |-> Touch(call[c], s)]
  /\ UNCHANGED <<file_offsets, watchers, delivered>>
  /\ UNCHANGED <<linkVars, pureVars, lockVars>>

\* lines of the log that are no chat message: a message of another role, a
\* message without text, a record that was never closed, a blank line
JunkKinds == {"role", "empty", "open", "blank"}

JunkLine(k, junk) ==
  IF junk = "role"
  THEN <<Obj(to_string([type |-> "message",
                        message |-> Some([role |-> "system",
                                          content |-> <<[type |-> "text", text |-> Some(<<k>>)]>>])])),
         Close>>
  ELSE IF junk = "empty"
  THEN <<Obj(to_string([type |-> "message",
                        message |-> Some([role |-> "user",
                                          content |-> <<[type |-> "text", text |-> Some(<<>>)]>>])])),
         Close>>
  ELSE IF junk = "open" THEN <<Obj(to_string(Record(k, "message")))>>
  ELSE <<>>

\* the lines of a log that append_message did not write
JunkCount(s) == Len(Lines(file[s])) - Len(written[s])

\* the agent process, or anything else, writing such a line to the log
agent_line(s, junk) ==
  /\ AtLineStart(file[s])
  /\ JunkCount(s) < MaxLines - 1
  /\ file' = [file EXCEPT ![s] = @ \o JunkLine(ObjCount(@) + 1, junk) \o <<NL>>]
  /\ call' = [c \in Calls |-> Touch(call[c], s)]
  /\ UNCHANGED <<written, file_offsets, watchers, delivered>>
  /\ UNCHANGED <<linkVars, pureVars, lockVars>>

\* a change of some other file of the watched directory
Notify(c) ==
  /\ call[c].live
  /\ call[c].chan < MaxPending
  /\ call' = [call EXCEPT ![c] = Signal(@)]
  /\ UNCHANGED <<file, written, file_offsets, watchers, delivered>>
  /\ UNCHANGED <<linkVars, pureVars, lockVars>>

\* ------------------------------------------------- watcher.rs: watch_session
\* lines 35-61: the initial read and replay
watch_session_replay(c, s) ==
  /\ call[c].pc = "idle"
  /\ \A d \in Calls : d < c => call[d].pc # "idle"
  /\ LET r == IF PathExists(s) THEN Scan(file[s], 0) ELSE [offset |-> 0, msgs |-> <<>>]
     IN /\ delivered' = [delivered EXCEPT ![s] = @ \o Events(r.msgs, c, "replay")]
        /\ call' = [call EXCEPT ![c] = [@ EXCEPT !.pc = "replayed", !.sess = s,
                                          !.init = r.offset, !.fresh = TRUE]]
  /\ UNCHANGED <<file, written, file_offsets, watchers>>
  /\ UNCHANGED <<linkVars, pureVars, lockVars>>

\* lines 63-91: store the initial offset, create the channel and the
\* directory watcher
watch_session_subscribe(c) ==
  /\ call[c].pc = "replayed"
  /\ file_offsets' = [file_offsets EXCEPT ![call[c].sess] = Some(call[c].init)]
  /\ call' = [call EXCEPT ![c] = [@ EXCEPT !.pc = "subscribed", !.init = 0, !.live = TRUE]]
  /\ UNCHANGED <<file, written, watchers, delivered>>
  /\ UNCHANGED <<linkVars, pureVars, lockVars>>

\* lines 93-139: insert the handle (HashMap::insert drops a handle it
\* replaces), spawn the delivery task, return Ok
watch_session_register(c) ==
  /\ call[c].pc = "subscribed"
  /\ LET s == call[c].sess
         old == watchers[s]
     IN /\ watchers' = [watchers EXCEPT ![s] = c]
        /\ call' = [d \in Calls |->
                      IF d = c THEN [call[c] EXCEPT !.pc = "done", !.tpc = "recv"]
                      ELSE IF d = old THEN Drop(call[d])
                      ELSE call[d]]
  /\ UNCHANGED <<file, written, file_offsets, delivered>>
  /\ UNCHANGED <<linkVars, pureVars, lockVars>>

\* lines 102-131: one iteration of the delivery task up to the emits
task_read(c) ==
  /\ call[c].tpc = "recv"
  /\ call[c].chan > 0
  /\ LET s == call[c].sess
         current_offset == IF file_offsets[s] = None THEN 0 ELSE file_offsets[s][1]
         content == file[s]
     IN \E r \in {Scan(content, current_offset)} :
          IF ~PathExists(s)
          THEN /\ call' = [call EXCEPT ![c] = [@ EXCEPT !.chan = @ - 1]]
               /\ UNCHANGED delivered
          ELSE IF Len(content) <= current_offset
          THEN /\ call' = [call EXCEPT ![c] = [@ EXCEPT !.chan = @ - 1, !.fresh = TRUE,
                                                 !.err = FALSE]]
               /\ UNCHANGED delivered
          ELSE /\ call' = [call EXCEPT ![c] = [@ EXCEPT !.chan = @ - 1, !.fresh = TRUE,
                                                 !.err = FALSE,
                                                 !.tpc = "store", !.tnew = r.offset]]
               /\ delivered' = [delivered EXCEPT ![s] = @ \o Events(r.msgs, c, "live")]
  /\ UNCHANGED <<file, written, file_offsets, watchers>>
  /\ UNCHANGED <<linkVars, pureVars, lockVars>>

\* a failed read ending the task
task_read_fail_exit(c) ==
  /\ call[c].tpc = "recv"
  /\ call[c].chan > 0
  /\ PathExists(call[c].sess)
  /\ call' = [call EXCEPT ![c] = [@ EXCEPT !.chan = @ - 1, !.err = TRUE, !.tpc = "exit"]]
  /\ UNCHANGED <<file, written, file_offsets, watchers, delivered>>
  /\ UNCHANGED <<linkVars, pureVars, lockVars>>

\* lines 102-112 and 135-136: one iteration whose read_to_string fails (the
\* file exists and cannot be read); `if let Ok` skips the body and the loop
\* goes on
task_read_fail(c) ==
  /\ call[c].tpc = "recv"
  /\ call[c].chan > 0
  /\ PathExists(call[c].sess)
  /\ call' = [call EXCEPT ![c] = [@ EXCEPT !.chan = @ - 1, !.err = TRUE]]
  /\ UNCHANGED <<file, written, file_offsets, watchers, delivered>>
  /\ UNCHANGED <<linkVars, pureVars, lockVars>>

\* lines 133-134: store the new offset
task_store(c) ==
  /\ call[c].tpc = "store"
  /\ file_offsets' = [file_offsets EXCEPT ![call[c].sess] = Some(call[c].tnew)]
  /\ call' = [call EXCEPT ![c] = [@ EXCEPT !.tpc = "recv", !.tnew = 0]]
  /\ UNCHANGED <<file, written, watchers, delivered>>
  /\ UNCHANGED <<linkVars, pureVars, lockVars>>

\* line 102: recv() yields None once the sender is gone and the queue is empty
task_exit(c) ==
  /\ call[c].tpc = "recv"
  /\ call[c].chan = 0
  /\ ~call[c].live
  /\ call' = [call EXCEPT ![c] = [@ EXCEPT !.tpc = "exit"]]
  /\ UNCHANGED <<file, written, file_offsets, watchers, delivered>>
  /\ UNCHANGED <<linkVars, pureVars, lockVars>>

\* ------------------------------------------------- watcher.rs: stop_watching
\* stop_watching emptying the registry instead of removing one key
stop_watching_all(s) ==
  /\ watchers' = [t \in Sessions |-> 0]
  /\ call' = [d \in Calls |->
                IF \E t \in Sessions : watchers[t] = d THEN Drop(call[d]) ELSE call[d]]
  /\ UNCHANGED <<file, written, file_offsets, delivered>>
  /\ UNCHANGED <<linkVars, pureVars, lockVars>>

stop_watching(s) ==
  /\ LET old == watchers[s]
     IN /\ watchers' = [watchers EXCEPT ![s] = 0]
        /\ call' = [d \in Calls |-> IF d = old THEN Drop(call[d]) ELSE call[d]]
  /\ UNCHANGED <<file, written, file_offsets, delivered>>
  /\ UNCHANGED <<linkVars, pureVars, lockVars>>

\* ------------------------------------- watcher.rs: the locks of WatcherState
\* the two threads of a watch_session call: the caller and the spawned task
Caller(c) == <<"watch_session", c>>
Task(c) == <<"task", c>>

\* line 64: state.lock(), after the initial read
clone_lock_state(c) ==
  /\ call[c].pc = "replayed"
  /\ state_lock = None
  /\ state_lock' = Caller(c)
  /\ call' = [call EXCEPT ![c] = [@ EXCEPT !.pc = "l64_state"]]
  /\ UNCHANGED <<file, written, file_offsets, watchers, delivered, offsets_lock>>
  /\ UNCHANGED <<linkVars, pureVars>>

\* line 64: .file_offsets.lock() on the guard of the first lock
clone_lock_offsets(c) ==
  /\ call[c].pc = "l64_state"
  /\ offsets_lock = None
  /\ offsets_lock' = Caller(c)
  /\ call' = [call EXCEPT ![c] = [@ EXCEPT !.pc = "l64_both"]]
  /\ UNCHANGED <<file, written, file_offsets, watchers, delivered, state_lock>>
  /\ UNCHANGED <<linkVars, pureVars>>

\* lines 64-66: the map is cloned, both guards are dropped at the end of the
\* statement, and the insert goes into the clone
clone_unlock(c) ==
  /\ call[c].pc = "l64_both"
  /\ state_lock' = None
  /\ offsets_lock' = None
  /\ call' = [call EXCEPT ![c] = [@ EXCEPT !.pc = "l66"]]
  /\ UNCHANGED <<file, written, file_offsets, watchers, delivered>>
  /\ UNCHANGED <<linkVars, pureVars>>

\* line 69: state.lock()
arc_lock_state(c) ==
  /\ call[c].pc = "l66"
  /\ state_lock = None
  /\ state_lock' = Caller(c)
  /\ call' = [call EXCEPT ![c] = [@ EXCEPT !.pc = "l69"]]
  /\ UNCHANGED <<file, written, file_offsets, watchers, delivered, offsets_lock>>
  /\ UNCHANGED <<linkVars, pureVars>>

\* lines 70-71: Arc::clone of file_offsets, the guard is dropped
arc_unlock(c) ==
  /\ call[c].pc = "l69"
  /\ state_lock' = None
  /\ call' = [call EXCEPT ![c] = [@ EXCEPT !.pc = "l71"]]
  /\ UNCHANGED <<file, written, file_offsets, watchers, delivered, offsets_lock>>
  /\ UNCHANGED <<linkVars, pureVars>>

\* line 73: file_offsets.lock()
initial_lock_offsets(c) ==
  /\ call[c].pc = "l71"
  /\ offsets_lock = None
  /\ offsets_lock' = Caller(c)
  /\ call' = [call EXCEPT ![c] = [@ EXCEPT !.pc = "l73"]]
  /\ UNCHANGED <<file, written, file_offsets, watchers, delivered, state_lock>>
  /\ UNCHANGED <<linkVars, pureVars>>

\* lines 74-91: the initial offset is stored and the guard dropped; then the
\* channel and the directory watcher are created
initial_insert(c) ==
  /\ call[c].pc = "l73"
  /\ offsets_lock' = None
  /\ file_offsets' = [file_offsets EXCEPT ![call[c].sess] = Some(call[c].init)]
  /\ call' = [call EXCEPT ![c] = [@ EXCEPT !.pc = "subscribed", !.init = 0, !.live = TRUE]]
  /\ UNCHANGED <<file, written, watchers, delivered, state_lock>>
  /\ UNCHANGED <<linkVars, pureVars>>

\* line 94: state.lock()
register_lock_state(c) ==
  /\ call[c].pc = "subscribed"
  /\ state_lock = None
  /\ state_lock' = Caller(c)
  /\ call' = [call EXCEPT ![c] = [@ EXCEPT !.pc = "l94"]]
  /\ UNCHANGED <<file, written, file_offsets, watchers, delivered, offsets_lock>>
  /\ UNCHANGED <<linkVars, pureVars>>

\* lines 95-139: the handle is inserted (a replaced handle is dropped), the
\* guard is dropped, the task is spawned
register_insert(c) ==
  /\ call[c].pc = "l94"
  /\ state_lock' = None
  /\ LET s == call[c].sess
         old == watchers[s]
     IN /\ watchers' = [watchers EXCEPT ![s] = c]
        /\ call' = [d \in Calls |->
                      IF d = c THEN [call[c] EXCEPT !.pc = "done", !.tpc = "recv"]
                      ELSE IF d = old THEN Drop(call[d])
                      ELSE call[d]]
  /\ UNCHANGED <<file, written, file_offsets, delivered, offsets_lock>>
  /\ UNCHANGED <<linkVars, pureVars>>

\* lines 143-145: stop_watching takes the lock, removes the handle and drops
\* the guard on return
stop_watching_locked(s) ==
  /\ state_lock = None
  /\ stop_watching(s)

\* lines 102-105: a notification is received; a missing file ends the iteration
task_recv(c) ==
  /\ call[c].tpc = "recv"
  /\ call[c].chan > 0
  /\ call' = [call EXCEPT ![c] = [@ EXCEPT !.chan = @ - 1,
                                    !.tpc = IF PathExists(call[c].sess) THEN "l107" ELSE "recv"]]
  /\ UNCHANGED <<file, written, file_offsets, watchers, delivered>>
  /\ UNCHANGED <<linkVars, pureVars, lockVars>>

\* line 108: offsets_clone.lock()
task_lock_offsets(c) ==
  /\ call[c].tpc = "l107"
  /\ offsets_lock = None
  /\ offsets_lock' = Task(c)
  /\ call' = [call EXCEPT ![c] = [@ EXCEPT !.tpc = "l108"]]
  /\ UNCHANGED <<file, written, file_offsets, watchers, delivered, state_lock>>
  /\ UNCHANGED <<linkVars, pureVars>>

\* the guard of line 108 living until the end of the iteration
task_load_offset_kept(c) ==
  /\ call[c].tpc = "l108"
  /\ LET s == call[c].sess
     IN call' = [call EXCEPT ![c] = [@ EXCEPT !.tpc = "l112",
                   !.tnew = IF file_offsets[s] = None THEN 0 ELSE file_offsets[s][1]]]
  /\ UNCHANGED <<file, written, file_offsets, watchers, delivered>>
  /\ UNCHANGED <<linkVars, pureVars, lockVars>>

\* lines 109-110: current_offset is read (kept in tnew) and the guard dropped
task_load_offset(c) ==
  /\ call[c].tpc = "l108"
  /\ offsets_lock' = None
  /\ LET s == call[c].sess
     IN call' = [call EXCEPT ![c] = [@ EXCEPT !.tpc = "l112",
                   !.tnew = IF file_offsets[s] = None THEN 0 ELSE file_offsets[s][1]]]
  /\ UNCHANGED <<file, written, file_offsets, watchers, delivered, state_lock>>
  /\ UNCHANGED <<linkVars, pureVars>>

\* lines 112-131: the file is read and the new lines are emitted
task_scan(c) ==
  /\ call[c].tpc = "l112"
  /\ LET s == call[c].sess
         current_offset == call[c].tnew
         content == file[s]
     IN \E r \in {Scan(content, current_offset)} :
          IF Len(content) <= current_offset
          THEN /\ call' = [call EXCEPT ![c] = [@ EXCEPT !.fresh = TRUE, !.err = FALSE,
                                                 !.tpc = "recv", !.tnew = 0]]
               /\ UNCHANGED delivered
          ELSE /\ call' = [call EXCEPT ![c] = [@ EXCEPT !.fresh = TRUE, !.err = FALSE,
                                                 !.tpc = "store", !.tnew = r.offset]]
               /\ delivered' = [delivered EXCEPT ![s] = @ \o Events(r.msgs, c, "live")]
  /\ UNCHANGED <<file, written, file_offsets, watchers>>
  /\ UNCHANGED <<linkVars, pureVars, lockVars>>

\* line 133: offsets_clone.lock()
task_store_lock(c) ==
  /\ call[c].tpc = "store"
  /\ offsets_lock = None
  /\ offsets_lock' = Task(c)
  /\ call' = [call EXCEPT ![c] = [@ EXCEPT !.tpc = "l133"]]
  /\ UNCHANGED <<file, written, file_offsets, watchers, delivered, state_lock>>
  /\ UNCHANGED <<linkVars, pureVars>>

\* lines 134-136: the new offset is stored, the guard dropped
task_store_insert(c) ==
  /\ call[c].tpc = "l133"
  /\ offsets_lock' = None
  /\ file_offsets' = [file_offsets EXCEPT ![call[c].sess] = Some(call[c].tnew)]
  /\ call' = [call EXCEPT ![c] = [@ EXCEPT !.tpc = "recv", !.tnew = 0]]
  /\ UNCHANGED <<file, written, watchers, delivered, state_lock>>
  /\ UNCHANGED <<linkVars, pureVars>>

\* ------------------------------------------------------ ssh.rs: SshSession
\* at: the place in the log of the user line a cmd_send_message call wrote
IdleProc == [pc |-> "idle", op |-> "none", arg |-> "default", sess |-> "s1", at |-> 0,
             res |-> NoRet]

LinkOps == {"connect", "disconnect", "test", "exec", "configure", "status"}

Result(op, ok, val) == [op |-> op, ok |-> ok, val |-> val]

\* a caller starts an operation and waits for the mutex (lock().await)
Invoke(p, op, arg) ==
  /\ proc[p].pc = "idle"
  /\ op # "configure" => arg = "default"
  /\ proc' = [proc EXCEPT ![p] = [IdleProc EXCEPT !.pc = "wait", !.op = op, !.arg = arg]]
  /\ UNCHANGED <<status, session, open, config, lock, ret>>
  /\ UNCHANGED <<tailVars, pureVars, lockVars>>

\* the guard handed out whether or not another caller holds it
Lock_unguarded(p) ==
  /\ proc[p].pc = "wait"
  /\ lock' = p
  /\ proc' = [proc EXCEPT ![p] = [@ EXCEPT !.pc = "run"]]
  /\ UNCHANGED <<status, session, open, config, ret>>
  /\ UNCHANGED <<tailVars, pureVars, lockVars>>

\* ssh_session.lock().await returns: the mutex was free and is now held
Lock(p) ==
  /\ proc[p].pc = "wait"
  /\ lock = 0
  /\ lock' = p
  /\ proc' = [proc EXCEPT ![p] = [@ EXCEPT !.pc = "run"]]
  /\ UNCHANGED <<status, session, open, config, ret>>
  /\ UNCHANGED <<tailVars, pureVars, lockVars>>

\* connect, lines 60-66: the status becomes Connecting, the destination is
\* built from the configuration as it is now (arg) and the handshake starts
connect_begin(p) ==
  /\ proc[p].pc = "run"
  /\ proc[p].op \in {"connect", "test"}
  /\ status' = "Connecting"
  /\ proc' = [proc EXCEPT ![p] = [@ EXCEPT !.pc = "handshake", !.arg = config]]
  /\ UNCHANGED <<session, open, config, lock, ret>>
  /\ UNCHANGED <<tailVars, pureVars, lockVars>>

\* connect, lines 68-77: the handshake succeeded; the new connection is
\* stored (the Session it replaces is dropped, which closes it) and the
\* status becomes Connected
connect_ok(p) ==
  /\ proc[p].pc = "handshake"
  /\ \E n \in Conns :
       /\ n.dest = proc[p].arg
       /\ n.id \notin open
       /\ session' = Some(n)
       /\ open' = (open \ {session[i].id : i \in DOMAIN session}) \cup {n.id}
  /\ status' = "Connected"
  /\ proc' = [proc EXCEPT ![p] =
                IF @.op = "test" THEN [@ EXCEPT !.pc = "exec"]
                ELSE [@ EXCEPT !.pc = "ret", !.res = Result(proc[p].op, TRUE, "none")]]
  /\ UNCHANGED <<config, lock, ret>>
  /\ UNCHANGED <<tailVars, pureVars, lockVars>>

\* connect, lines 68-73: the handshake failed and `?` returns the error
connect_fail(p) ==
  /\ proc[p].pc = "handshake"
  /\ proc' = [proc EXCEPT ![p] =
                [@ EXCEPT !.pc = "ret", !.res = Result(proc[p].op, FALSE, "SSH connect failed")]]
  /\ UNCHANGED <<status, session, open, config, lock, ret>>
  /\ UNCHANGED <<tailVars, pureVars, lockVars>>

\* exec, lines 93-108 (also behind read_session_file, send_message_remote
\* and the second half of test_connection)
exec(p, outcome) ==
  /\ \/ proc[p].pc = "run" /\ proc[p].op = "exec"
     \/ proc[p].pc = "exec"
  /\ proc' = [proc EXCEPT ![p] =
                [@ EXCEPT !.pc = "ret",
                          !.res = IF session = None \/ session[1].id \notin open
                                  THEN Result(proc[p].op, FALSE,
                                              IF session = None THEN "Not connected"
                                              ELSE "SSH exec failed")
                                  ELSE Result(proc[p].op, outcome = "output", outcome)]]
  /\ UNCHANGED <<status, session, open, config, lock, ret>>
  /\ UNCHANGED <<tailVars, pureVars, lockVars>>

ExecOutcomes == {"output", "SSH exec failed", "Remote command failed"}

\* disconnect reporting a failed close and leaving the link as it was
disconnect_checked(p, closed) ==
  /\ proc[p].pc = "run"
  /\ proc[p].op = "disconnect"
  /\ open' = IF closed THEN open \ {session[i].id : i \in DOMAIN session} ELSE open
  /\ session' = IF closed THEN None ELSE session
  /\ status' = IF closed THEN "Disconnected" ELSE status
  /\ proc' = [proc EXCEPT ![p] = [@ EXCEPT !.pc = "ret", !.res = Result(proc[p].op, closed, "none")]]
  /\ UNCHANGED <<config, lock, ret>>
  /\ UNCHANGED <<tailVars, pureVars, lockVars>>

\* disconnect, lines 80-85: the handle is taken out of the link, the result
\* of close() is discarded (closed = FALSE: the close failed and the
\* connection stays open on the remote host), the status becomes Disconnected
disconnect(p, closed) ==
  /\ proc[p].pc = "run"
  /\ proc[p].op = "disconnect"
  /\ open' = IF closed THEN open \ {session[i].id : i \in DOMAIN session} ELSE open
  /\ session' = None
  /\ status' = "Disconnected"
  /\ proc' = [proc EXCEPT ![p] = [@ EXCEPT !.pc = "ret", !.res = Result(proc[p].op, TRUE, "none")]]
  /\ UNCHANGED <<config, lock, ret>>
  /\ UNCHANGED <<tailVars, pureVars, lockVars>>

\* cmd_configure_ssh dropping the connection that was opened with the old
\* configuration
cmd_configure_ssh_reset(p) ==
  /\ proc[p].pc = "run"
  /\ proc[p].op = "configure"
  /\ config' = proc[p].arg
  /\ session' = None
  /\ status' = "Disconnected"
  /\ proc' = [proc EXCEPT ![p] = [@ EXCEPT !.pc = "ret", !.res = Result(proc[p].op, TRUE, "none")]]
  /\ UNCHANGED <<open, lock, ret>>
  /\ UNCHANGED <<tailVars, pureVars, lockVars>>

\* lib.rs, cmd_configure_ssh
cmd_configure_ssh(p) ==
  /\ proc[p].pc = "run"
  /\ proc[p].op = "configure"
  /\ config' = proc[p].arg
  /\ proc' = [proc EXCEPT ![p] = [@ EXCEPT !.pc = "ret", !.res = Result(proc[p].op, TRUE, "none")]]
  /\ UNCHANGED <<status, session, open, lock, ret>>
  /\ UNCHANGED <<tailVars, pureVars, lockVars>>

\* lib.rs, cmd_ssh_status
cmd_ssh_status(p) ==
  /\ proc[p].pc = "run"
  /\ proc[p].op = "status"
  /\ proc' = [proc EXCEPT ![p] = [@ EXCEPT !.pc = "ret", !.res = Result(proc[p].op, TRUE, status)]]
  /\ UNCHANGED <<status, session, open, config, lock, ret>>
  /\ UNCHANGED <<tailVars, pureVars, lockVars>>

\* the operation returns to its caller and the guard is dropped
Return(p) ==
  /\ proc[p].pc = "ret"
  /\ lock' = 0
  /\ ret' = proc[p].res
  /\ proc' = [proc EXCEPT ![p] = IdleProc]
  /\ UNCHANGED <<status, session, open, config>>
  /\ UNCHANGED <<tailVars, pureVars, lockVars>>

\* the remote end or the network closes an open connection
ConnectionLost(n) ==
  /\ n \in open
  /\ open' = open \ {n}
  /\ UNCHANGED <<status, session, config, lock, proc, ret>>
  /\ UNCHANGED <<tailVars, pureVars, lockVars>>

\* ------------------------------------------------- lib.rs: the chat commands
\* cmd_set_remote_mode
cmd_set_remote_mode(enabled) ==
  /\ remote_mode' = enabled
  /\ UNCHANGED <<chat, encoded, decoded, prompt, command, words, lockVars>>
  /\ UNCHANGED <<tailVars, linkVars>>

\* content.lines().filter_map(parse_jsonl_line).collect()
RECURSIVE filter_map(_)
filter_map(ls) ==
  IF ls = <<>> THEN <<>>
  ELSE LET m == parse_jsonl_line(Head(ls))
       IN (IF m = None THEN <<>> ELSE <<m[1]>>) \o filter_map(Tail(ls))

\* load_session keeping every line that reads as JSON
load_session_unfiltered(s) ==
  IF ~PathExists(s) THEN <<>>
  ELSE LET ls == SelectSeq(Lines(file[s]), LAMBDA l : Len(l) = 2)
       IN [i \in DOMAIN ls |->
             IF ls[i][1][2].message = None THEN ChatMessage("none", <<>>)
             ELSE ChatMessage(ls[i][1][2].message[1].role,
                              JoinTexts(ls[i][1][2].message[1].content))]

\* openclaw.rs, load_session
load_session(s) == IF ~PathExists(s) THEN <<>> ELSE filter_map(Lines(file[s]))

\* what the calls of cmd_send_message have written to local logs so far
RECURSIVE UserCount(_)
UserCount(msgs) ==
  IF msgs = <<>> THEN 0
  ELSE (IF Head(msgs).role = "user" THEN 1 ELSE 0) + UserCount(Tail(msgs))

Sends == LET Sum[S \in SUBSET Sessions] ==
               IF S = {} THEN 0
               ELSE LET s == CHOOSE x \in S : TRUE IN UserCount(written[s]) + Sum[S \ {s}]
         IN Sum[Sessions]

\* cmd_load_session reading the local log whatever the flag says
cmd_load_session_local(p, s) ==
  /\ proc[p].pc = "idle"
  /\ ret' = Result("load", TRUE, load_session(s))
  /\ UNCHANGED <<status, session, open, config, lock, proc>>
  /\ UNCHANGED <<tailVars, pureVars, lockVars>>

\* cmd_load_session, lines 141-143 and 154: the flag is read; in remote mode
\* the call goes on to lock the Remote Link, in local mode it reads the log
\* and returns
cmd_load_session(p, s) ==
  /\ proc[p].pc = "idle"
  /\ IF remote_mode
     THEN /\ proc' = [proc EXCEPT ![p] = [IdleProc EXCEPT !.pc = "wait", !.op = "load", !.sess = s]]
          /\ UNCHANGED ret
     ELSE /\ ret' = Result("load", TRUE, load_session(s))
          /\ UNCHANGED proc
  /\ UNCHANGED <<status, session, open, config, lock>>
  /\ UNCHANGED <<tailVars, pureVars, lockVars>>

\* what exec returns to read_session_file and send_message_remote
ExecResult(op, outcome, out) ==
  IF session = None THEN Result(op, FALSE, "Not connected")
  ELSE IF session[1].id \notin open THEN Result(op, FALSE, "SSH exec failed")
  ELSE IF outcome = "output" THEN Result(op, TRUE, out)
  ELSE Result(op, FALSE, outcome)

\* the text `cat` prints for a remote log, trimmed by exec
RemoteContents == {<<>>, encodeLine(ChatMessage("user", <<1>>))}

\* cmd_load_session, lines 144-152: read_session_file under the lock, then
\* the lines of its output are parsed
cmd_load_session_remote(p, outcome, content) ==
  /\ proc[p].pc = "run"
  /\ proc[p].op = "load"
  /\ proc' = [proc EXCEPT ![p] =
                [@ EXCEPT !.pc = "ret",
                          !.res = ExecResult("load", outcome, filter_map(Lines(content)))]]
  /\ UNCHANGED <<status, session, open, config, lock, ret>>
  /\ UNCHANGED <<tailVars, pureVars, lockVars>>
\* cmd_send_message, lines 173-188: the flag is read; in remote mode the call
\* goes on to lock the Remote Link, in local mode the user message is
\* appended to the log (wrote = FALSE: the write fails and the call returns)
cmd_send_message(p, s, wrote) ==
  /\ proc[p].pc = "idle"
  /\ IF remote_mode
     THEN /\ proc' = [proc EXCEPT ![p] = [IdleProc EXCEPT !.pc = "wait", !.op = "send", !.sess = s]]
          /\ UNCHANGED <<file, written, call, ret>>
     ELSE /\ Sends < MaxSends
          /\ IF wrote
             THEN LET user_msg == ChatMessage("user", <<ObjCount(file[s]) + 1>>)
                  IN /\ file' = [file EXCEPT ![s] = @ \o encodeLine(user_msg) \o <<NL>>]
                     /\ written' = [written EXCEPT ![s] = Append(@, user_msg)]
                     /\ call' = [c \in Calls |-> Touch(call[c], s)]
                     /\ proc' = [proc EXCEPT ![p] =
                                   [IdleProc EXCEPT !.pc = "agent", !.op = "send", !.sess = s,
                                                    !.at = ObjCount(file[s]) + 1]]
                     /\ UNCHANGED ret
             ELSE /\ ret' = Result("send", FALSE, "Failed to write user message")
                  /\ UNCHANGED <<file, written, call, proc>>
  /\ UNCHANGED <<file_offsets, watchers, delivered>>
  /\ UNCHANGED <<status, session, open, config, lock>>
  /\ UNCHANGED <<pureVars, lockVars>>

\* cmd_send_message, lines 175-179: send_message_remote under the lock
cmd_send_message_remote(p, outcome) ==
  /\ proc[p].pc = "run"
  /\ proc[p].op = "send"
  /\ proc' = [proc EXCEPT ![p] = [@ EXCEPT !.pc = "ret", !.res = ExecResult("send", outcome, "none")]]
  /\ UNCHANGED <<status, session, open, config, lock, ret>>
  /\ UNCHANGED <<tailVars, pureVars, lockVars>>

AgentOutcomes == {"text", "OpenClaw error", "Failed to write assistant message"}

\* cmd_send_message writing an assistant line whatever send_and_capture returned
send_and_capture_always(p, outcome) ==
  /\ proc[p].pc = "agent"
  /\ LET s == proc[p].sess
         assistant_msg == ChatMessage("assistant", <<ObjCount(file[s]) + 1>>)
     IN /\ file' = [file EXCEPT ![s] = @ \o encodeLine(assistant_msg) \o <<NL>>]
        /\ written' = [written EXCEPT ![s] = Append(@, assistant_msg)]
        /\ call' = [c \in Calls |-> Touch(call[c], s)]
        /\ delivered' = [delivered EXCEPT ![s] =
                           Append(@, [msg |-> assistant_msg, by |-> 0, phase |-> "send"])]
        /\ ret' = Result("send", outcome = "text", IF outcome = "text" THEN "none" ELSE outcome)
  /\ proc' = [proc EXCEPT ![p] = IdleProc]
  /\ UNCHANGED <<file_offsets, watchers>>
  /\ UNCHANGED <<status, session, open, config, lock>>
  /\ UNCHANGED <<pureVars, lockVars>>

\* cmd_send_message, lines 191-240: send_and_capture returns; its text is
\* appended to the log as the assistant message and emitted as chat:message
\* (by 0: emitted by the command, not by a watch), or the failure is
\* returned; the command returns
send_and_capture(p, outcome) ==
  /\ proc[p].pc = "agent"
  /\ LET s == proc[p].sess
         assistant_msg == ChatMessage("assistant", <<ObjCount(file[s]) + 1>>)
     IN IF outcome = "text"
        THEN /\ file' = [file EXCEPT ![s] = @ \o encodeLine(assistant_msg) \o <<NL>>]
             /\ written' = [written EXCEPT ![s] = Append(@, assistant_msg)]
             /\ call' = [c \in Calls |-> Touch(call[c], s)]
             /\ delivered' = [delivered EXCEPT ![s] =
                                Append(@, [msg |-> assistant_msg, by |-> 0, phase |-> "send"])]
             /\ ret' = Result("send", TRUE, "none")
        ELSE /\ ret' = Result("send", FALSE, outcome)
             /\ UNCHANGED <<file, written, call, delivered>>
  /\ proc' = [proc EXCEPT ![p] = IdleProc]
  /\ UNCHANGED <<file_offsets, watchers>>
  /\ UNCHANGED <<status, session, open, config, lock>>
  /\ UNCHANGED <<pureVars, lockVars>>

\* openclaw.rs: append_message run by caller p, write by write.  The file
\* is opened in append mode and writeln!(file, "{}", text) hands the text
\* and the line terminator to the file in two writes (line 126); first the
\* text (at: the number of the record)
append_write(p, s) ==
  /\ proc[p].pc = "idle"
  /\ Written < MaxLines
  /\ LET k == ObjCount(file[s]) + 1
     IN /\ file' = [file EXCEPT ![s] = @ \o encodeLine(RecordMsg(k))]
        /\ written' = [written EXCEPT ![s] = Append(@, RecordMsg(k))]
        /\ proc' = [proc EXCEPT ![p] = [@ EXCEPT !.pc = "newline", !.op = "append",
                                                 !.sess = s, !.at = k]]
  /\ call' = [c \in Calls |-> Touch(call[c], s)]
  /\ UNCHANGED <<file_offsets, watchers, delivered>>
  /\ UNCHANGED <<status, session, open, config, lock, ret>>
  /\ UNCHANGED <<pureVars, lockVars>>

\* then the line terminator, and append_message returns
append_newline(p) ==
  /\ proc[p].pc = "newline"
  /\ file' = [file EXCEPT ![proc[p].sess] = Append(@, NL)]
  /\ call' = [c \in Calls |-> Touch(call[c], proc[p].sess)]
  /\ proc' = [proc EXCEPT ![p] = IdleProc]
  /\ UNCHANGED <<written, file_offsets, watchers, delivered>>
  /\ UNCHANGED <<status, session, open, config, lock, ret>>
  /\ UNCHANGED <<pureVars, lockVars>>

\* ----------------------------------------------------------- specification
\* the Message Codec and the command builder have no input yet
NoMsg == ChatMessage("user", <<>>)

NoCodec ==
  /\ chat = NoMsg
  /\ encoded = None
  /\ decoded = None

NoShell ==
  /\ prompt = <<>>
  /\ command = None
  /\ words = None

InitPure == NoCodec /\ NoShell

\* no log written, WatcherState::new(), remote_mode false, no command running
InitLocal ==
  /\ file = [s \in Sessions |-> <<>>]
  /\ written = [s \in Sessions |-> <<>>]
  /\ remote_mode = FALSE
  /\ file_offsets = [s \in Sessions |-> None]
  /\ watchers = [s \in Sessions |-> 0]
  /\ call = [c \in Calls |-> IdleCall]
  /\ delivered = [s \in Sessions |-> <<>>]
  /\ config = "default"
  /\ lock = 0
  /\ proc = [p \in Procs |-> IdleProc]
  /\ ret = NoRet
  /\ state_lock = None
  /\ offsets_lock = None

\* SshSession::new()
InitLink ==
  /\ status = "Disconnected"
  /\ session = None
  /\ open = {}

InitApp == InitLocal /\ InitLink

Init == InitApp /\ InitPure

Next ==
  \/ \E s \in Sessions, kind \in LineKinds : append_message(s, kind)
  \/ \E s \in Sessions : append_message_part(s)
  \/ \E c \in Calls : Notify(c)
  \/ \E c \in Calls, s \in Sessions : watch_session_replay(c, s)
  \/ \E c \in Calls : watch_session_subscribe(c)
  \/ \E c \in Calls : watch_session_register(c)
  \/ \E c \in Calls : task_read(c)
  \/ \E c \in Calls : task_store(c)
  \/ \E c \in Calls : task_exit(c)
  \/ \E s \in Sessions : stop_watching(s)

Spec == Init /\ [][Next]_vars

\* the same program driven by a caller that starts at most one watch per
\* session, with writers that append whole terminated lines
Watched(s) == \E c \in Calls : call[c].pc # "idle" /\ call[c].sess = s

watch_once(c, s) == ~Watched(s) /\ watch_session_replay(c, s)

NextOnce ==
  \/ \E s \in Sessions, kind \in LineKinds : append_message(s, kind)
  \/ \E c \in Calls : Notify(c)
  \/ \E c \in Calls, s \in Sessions : watch_once(c, s)
  \/ \E c \in Calls : watch_session_subscribe(c)
  \/ \E c \in Calls : watch_session_register(c)
  \/ \E c \in Calls : task_read(c)
  \/ \E c \in Calls : task_store(c)
  \/ \E c \in Calls : task_exit(c)
  \/ \E s \in Sessions : stop_watching(s)

SpecOnce == Init /\ [][NextOnce]_vars

\* cmd_watch_session and cmd_stop_watching of a caller that watches a session
\* once, with cmd_set_remote_mode
NextWatch ==
  \/ \E enabled \in BOOLEAN : cmd_set_remote_mode(enabled)
  \/ \E s \in Sessions, kind \in LineKinds : append_message(s, kind)
  \/ \E c \in Calls : Notify(c)
  \/ \E c \in Calls, s \in Sessions : watch_once(c, s)
  \/ \E c \in Calls : watch_session_subscribe(c)
  \/ \E c \in Calls : watch_session_register(c)
  \/ \E c \in Calls : task_read(c)
  \/ \E c \in Calls : task_store(c)
  \/ \E c \in Calls : task_exit(c)
  \/ \E s \in Sessions : stop_watching(s)

SpecWatch == Init /\ [][NextWatch]_vars

\* one watch per session that is never stopped; the writers start once the
\* watch_session call of the session has begun.  The runtime runs a call of
\* watch_session to its end and runs a spawned task whenever it can take a
\* step, so these steps are weakly fair; the writers are not.
watched_append(s) == Watched(s) /\ append_message(s, "message")

watched_append_part(s) == Watched(s) /\ append_message_part(s)

NextLive ==
  \/ \E s \in Sessions : watched_append(s)
  \/ \E s \in Sessions : watched_append_part(s)
  \/ \E c \in Calls, s \in Sessions : watch_once(c, s)
  \/ \E c \in Calls : watch_session_subscribe(c)
  \/ \E c \in Calls : watch_session_register(c)
  \/ \E c \in Calls : task_read(c)
  \/ \E c \in Calls : task_store(c)

FairTasks ==
  \A c \in Calls :
    /\ WF_vars(watch_session_subscribe(c))
    /\ WF_vars(watch_session_register(c))
    /\ WF_vars(task_read(c))
    /\ WF_vars(task_store(c))

SpecLive == Init /\ [][NextLive]_vars /\ FairTasks

\* watches that are started and stopped while messages are appended and
\* other files of the directory change, with fairly scheduled tasks: a task
\* that can take a notification, store its offset or see its channel closed
\* does so
NextStop ==
  \/ \E s \in Sessions : append_message(s, "message")
  \/ \E c \in Calls : Notify(c)
  \/ \E c \in Calls, s \in Sessions : watch_once(c, s)
  \/ \E c \in Calls : watch_session_subscribe(c)
  \/ \E c \in Calls : watch_session_register(c)
  \/ \E c \in Calls : task_read(c)
  \/ \E c \in Calls : task_store(c)
  \/ \E c \in Calls : task_exit(c)
  \/ \E s \in Sessions : stop_watching(s)

task_step(c) == task_read(c) \/ task_store(c) \/ task_exit(c)

FairStop == \A c \in Calls : WF_vars(task_step(c))

SpecStop == Init /\ [][NextStop]_vars /\ FairStop

\* the watches of SpecOnce with reads that can fail
NextFail ==
  \/ \E s \in Sessions, kind \in LineKinds : append_message(s, kind)
  \/ \E c \in Calls : Notify(c)
  \/ \E c \in Calls, s \in Sessions : watch_once(c, s)
  \/ \E c \in Calls : watch_session_subscribe(c)
  \/ \E c \in Calls : watch_session_register(c)
  \/ \E c \in Calls : task_read(c)
  \/ \E c \in Calls : task_read_fail(c)
  \/ \E c \in Calls : task_store(c)
  \/ \E c \in Calls : task_exit(c)
  \/ \E s \in Sessions : stop_watching(s)

SpecFail == Init /\ [][NextFail]_vars

\* concurrent callers of append_message (the sends of cmd_send_message run
\* on a multi-threaded runtime) and the watches that read the logs
NextAppend ==
  \/ \E p \in Procs, s \in Sessions : append_write(p, s)
  \/ \E p \in Procs : append_newline(p)
  \/ \E c \in Calls, s \in Sessions : watch_once(c, s)
  \/ \E c \in Calls : watch_session_subscribe(c)
  \/ \E c \in Calls : watch_session_register(c)
  \/ \E c \in Calls : task_read(c)
  \/ \E c \in Calls : task_store(c)

SpecAppend == Init /\ [][NextAppend]_vars

\* a caller that watches a session again only after it has stopped the
\* watch: no call for the session is running and the registry has no handle
\* for it
InFlight(s) == \E c \in Calls : call[c].sess = s /\ call[c].pc \in {"replayed", "subscribed"}

watch_restart(c, s) == watchers[s] = 0 /\ ~InFlight(s) /\ watch_session_replay(c, s)

NextRestart ==
  \/ \E s \in Sessions : append_message(s, "message")
  \/ \E c \in Calls, s \in Sessions : watch_restart(c, s)
  \/ \E c \in Calls : watch_session_subscribe(c)
  \/ \E c \in Calls : watch_session_register(c)
  \/ \E c \in Calls : task_read(c)
  \/ \E c \in Calls : task_store(c)
  \/ \E c \in Calls : task_exit(c)
  \/ \E s \in Sessions : stop_watching(s)

SpecRestart == Init /\ [][NextRestart]_vars

\* every lock and unlock of watch_session and of the delivery tasks, each a
\* step of its own
LockStep ==
  \/ \E c \in Calls : clone_lock_state(c)
  \/ \E c \in Calls : clone_lock_offsets(c)
  \/ \E c \in Calls : clone_unlock(c)
  \/ \E c \in Calls : arc_lock_state(c)
  \/ \E c \in Calls : arc_unlock(c)
  \/ \E c \in Calls : initial_lock_offsets(c)
  \/ \E c \in Calls : initial_insert(c)
  \/ \E c \in Calls : register_lock_state(c)
  \/ \E c \in Calls : register_insert(c)
  \/ \E c \in Calls : task_lock_offsets(c)
  \/ \E c \in Calls : task_load_offset(c)
  \/ \E c \in Calls : task_store_lock(c)
  \/ \E c \in Calls : task_store_insert(c)

\* the first line of the log of one session; the log of the other stays absent
first_append == written["s1"] = <<>> /\ append_message("s1", "message")

NextLocks ==
  \/ first_append
  \/ \E c \in Calls, s \in Sessions : watch_session_replay(c, s)
  \/ \E s \in Sessions : stop_watching_locked(s)
  \/ \E c \in Calls : task_recv(c)
  \/ \E c \in Calls : task_scan(c)
  \/ \E c \in Calls : task_exit(c)
  \/ LockStep

SpecLocks == Init /\ [][NextLocks]_vars

\* the Remote Link and its callers
NextLink ==
  \/ \E p \in Procs, op \in LinkOps, arg \in Configs : Invoke(p, op, arg)
  \/ \E p \in Procs : Lock(p)
  \/ \E p \in Procs : connect_begin(p)
  \/ \E p \in Procs : connect_ok(p)
  \/ \E p \in Procs : connect_fail(p)
  \/ \E p \in Procs, outcome \in ExecOutcomes : exec(p, outcome)
  \/ \E p \in Procs, closed \in BOOLEAN : disconnect(p, closed)
  \/ \E p \in Procs : cmd_configure_ssh(p)
  \/ \E p \in Procs : cmd_ssh_status(p)
  \/ \E p \in Procs : Return(p)
  \/ \E n \in ConnIds : ConnectionLost(n)

SpecLink == Init /\ [][NextLink]_vars

\* the chat commands of one chat session in both modes; the Remote Link is
\* either as constructed or as cmd_test_ssh has left it after a success
Chat == "s1"

InitFacade ==
  /\ InitPure
  /\ InitLocal
  /\ \/ InitLink
     \/ status = "Connected" /\ session = Some(Conn(1, "default")) /\ open = {1}

NextFacade ==
  \/ \E enabled \in BOOLEAN : cmd_set_remote_mode(enabled)
  \/ \E p \in Procs : cmd_load_session(p, Chat)
  \/ \E p \in Procs, wrote \in BOOLEAN : cmd_send_message(p, Chat, wrote)
  \/ \E p \in Procs, outcome \in AgentOutcomes : send_and_capture(p, outcome)
  \/ \E p \in Procs : Lock(p)
  \/ \E p \in Procs, outcome \in ExecOutcomes, content \in RemoteContents :
       cmd_load_session_remote(p, outcome, content)
  \/ \E p \in Procs, outcome \in ExecOutcomes : cmd_send_message_remote(p, outcome)
  \/ \E p \in Procs : Return(p)

SpecFacade == InitFacade /\ [][NextFacade]_vars

\* the Log Store in local mode: cmd_send_message appends messages, other
\* lines get into the log, cmd_load_session reads it
NextStore ==
  \/ \E p \in Procs, wrote \in BOOLEAN : cmd_send_message(p, Chat, wrote)
  \/ \E p \in Procs, outcome \in AgentOutcomes : send_and_capture(p, outcome)
  \/ \E junk \in JunkKinds : agent_line(Chat, junk)
  \/ \E p \in Procs : cmd_load_session(p, Chat)

SpecStore == Init /\ [][NextStore]_vars

\* local sends to the chat session while sessions are watched
NextSend ==
  \/ \E p \in Procs, wrote \in BOOLEAN : cmd_send_message(p, Chat, wrote)
  \/ \E p \in Procs, outcome \in AgentOutcomes : send_and_capture(p, outcome)
  \/ \E c \in Calls, s \in Sessions : watch_once(c, s)
  \/ \E c \in Calls : watch_session_subscribe(c)
  \/ \E c \in Calls : watch_session_register(c)
  \/ \E c \in Calls : task_read(c)
  \/ \E c \in Calls : task_store(c)

SpecSend == Init /\ [][NextSend]_vars

\* the Message Codec applied to one message: append_message encodes it,
\* parse_jsonl_line reads the line back
Roles == {"user", "assistant", "system"}
Chars == {1, LF, Quote, Backslash, LetterN}
Texts(A) == UNION {[1..k -> A] : k \in 0..MaxText}

InitCodec ==
  /\ InitApp
  /\ NoShell
  /\ chat \in {ChatMessage(r, t) : r \in Roles, t \in Texts(Chars)}
  /\ encoded = None
  /\ decoded = None

Encode ==
  /\ encoded = None
  /\ encoded' = Some(encodeLine(chat))
  /\ UNCHANGED <<chat, decoded, prompt, command, words, remote_mode, lockVars>>
  /\ UNCHANGED <<tailVars, linkVars>>

Decode ==
  /\ encoded # None
  /\ decoded = None
  /\ decoded' = Some(parse_jsonl_line(encoded[1]))
  /\ UNCHANGED <<chat, encoded, prompt, command, words, remote_mode, lockVars>>
  /\ UNCHANGED <<tailVars, linkVars>>

NextCodec == Encode \/ Decode

SpecCodec == InitCodec /\ [][NextCodec]_vars

\* send_message_remote applied to one message text.  A command is a sequence
\* of characters; the fixed words of the command line stand in it as one
\* character each.
ShellChars == {"a", " ", "'", "\\", ";", "\""}

\* str::replace('\'', "'\\''")
RECURSIVE replace(_)
replace(text) ==
  IF text = <<>> THEN <<>>
  ELSE (IF Head(text) = "'" THEN <<"'", "\\", "'", "'">> ELSE <<Head(text)>>)
       \o replace(Tail(text))

\* the message put between the quotes as it is
escaped_plain(text) == text

\* ssh.rs line 117
escaped(text) == replace(text)

\* ssh.rs lines 118-121: the format! of the command line
send_message_remote(agent_id, session_id, text) ==
  <<"openclaw", " ", "agent", " ", "--agent", " ", "'">> \o agent_id
    \o <<"'", " ", "--session-id", " ", "'">> \o session_id
    \o <<"'", " ", "--message", " ", "'">> \o escaped(text) \o <<"'">>

\* the remote `sh -c`: the command split into words by the quoting rules of
\* the POSIX shell.  <<>> for an unterminated quote, else <<the words>>; a
\* word is a sequence of characters, the operator ; is the word <<"op", ";">>
RECURSIVE sh(_, _, _, _, _)
sh(chars, mode, cur, started, out) ==
  LET flushed == IF started THEN Append(out, cur) ELSE out
  IN IF chars = <<>>
     THEN (IF mode = "plain" THEN Some(flushed) ELSE None)
     ELSE LET c == Head(chars)
              rest == Tail(chars)
          IN IF mode = "single"
             THEN (IF c = "'" THEN sh(rest, "plain", cur, TRUE, out)
                   ELSE sh(rest, "single", Append(cur, c), TRUE, out))
             ELSE IF mode = "double"
             THEN (IF c = "\"" THEN sh(rest, "plain", cur, TRUE, out)
                   ELSE IF c = "\\" /\ rest # <<>> /\ Head(rest) \in {"\"", "\\"}
                   THEN sh(Tail(rest), "double", Append(cur, Head(rest)), TRUE, out)
                   ELSE sh(rest, "double", Append(cur, c), TRUE, out))
             ELSE IF c = " " THEN sh(rest, "plain", <<>>, FALSE, flushed)
             ELSE IF c = ";" THEN sh(rest, "plain", <<>>, FALSE, Append(flushed, <<"op", ";">>))
             ELSE IF c = "'" THEN sh(rest, "single", cur, TRUE, out)
             ELSE IF c = "\"" THEN sh(rest, "double", cur, TRUE, out)
             ELSE IF c = "\\"
             THEN (IF rest = <<>> THEN sh(rest, "plain", Append(cur, c), TRUE, out)
                   ELSE sh(Tail(rest), "plain", Append(cur, Head(rest)), TRUE, out))
             ELSE sh(rest, "plain", Append(cur, c), TRUE, out)

AgentId == <<"main">>
SessionId == <<"s1">>

InitShell ==
  /\ InitApp
  /\ NoCodec
  /\ prompt \in Texts(ShellChars)
  /\ command = None
  /\ words = None

Build ==
  /\ command = None
  /\ command' = Some(send_message_remote(AgentId, SessionId, prompt))
  /\ UNCHANGED <<chat, encoded, decoded, prompt, words, remote_mode, lockVars>>
  /\ UNCHANGED <<tailVars, linkVars>>

Split ==
  /\ command # None
  /\ words = None
  /\ words' = Some(sh(command[1], "plain", <<>>, FALSE, <<>>))
  /\ UNCHANGED <<chat, encoded, decoded, prompt, command, remote_mode, lockVars>>
  /\ UNCHANGED <<tailVars, linkVars>>

NextShell == Build \/ Split

SpecShell == InitShell /\ [][NextShell]_vars

\* ---------------------------------------------------------------- measures
Msgs(evs) == [i \in 1..Len(evs) |-> evs[i].msg]

IsPrefix(a, b) == Len(a) <= Len(b) /\ a = SubSeq(b, 1, Len(a))

By(evs, c) == SelectSeq(evs, LAMBDA e : e.by = c)

\* the chat messages of the records of a log, in the order they were written;
\* a record counts once it is closed and, if terminated is asked, once its
\* line terminator is in the file
RECURSIVE Appended(_, _)
Appended(bytes, terminated) ==
  IF bytes = <<>> THEN <<>>
  ELSE IF /\ bytes[1][1] = "obj"
          /\ Len(bytes) >= 2
          /\ bytes[2][1] = "close"
          /\ terminated => (Len(bytes) >= 3 /\ bytes[3][1] = "nl")
       THEN LET j == bytes[1][2]
            IN (IF j.type = "message"
                THEN <<ChatMessage(j.message[1].role, j.message[1].content[1].text[1])>>
                ELSE <<>>) \o Appended(Tail(Tail(bytes)), terminated)
       ELSE Appended(Tail(bytes), terminated)

\* the byte position just after the last line terminator
RECURSIVE CompleteLen(_)
CompleteLen(bytes) ==
  IF bytes = <<>> THEN 0
  ELSE IF bytes[Len(bytes)][1] = "nl" THEN Len(bytes)
  ELSE CompleteLen(SubSeq(bytes, 1, Len(bytes) - 1))

\* 0, or just after a line terminator of the file
OnLineBoundary(bytes, off) ==
  off = 0 \/ (off <= Len(bytes) /\ bytes[off][1] = "nl")

\* ------------------------------------------------------------------ claims

\* what the subscriber of a session has received
C1_Delivered ==
  \A c \in Calls :
    call[c].pc # "idle" =>
      LET s == call[c].sess
      IN /\ IsPrefix(Msgs(delivered[s]), Appended(file[s], TRUE))
         /\ call[c].fresh => Msgs(delivered[s]) = Appended(file[s], TRUE)
         /\ (call[c].fresh /\ call[c].tpc = "recv") => file_offsets[s] = Some(Len(file[s]))

\* a notification taken by a task that has read the whole file already
C1_IdleNotification ==
  \A c \in Calls :
    (/\ call[c].tpc = "recv"
     /\ call[c].fresh
     /\ call'[c].chan < call[c].chan) =>
      /\ delivered' = delivered
      /\ file_offsets' = file_offsets
      /\ call'[c].tpc = "recv"

\* C1: No double delivery. With one watch on a session whose log receives
\* whole terminated lines, what the subscriber has received is at
\* every moment a prefix of the appended messages; once the watch has read
\* the file since the last append it is exactly the appended messages, each
\* once and in append order, and the offset is the file length. A
\* notification processed while nothing new is in the file delivers nothing
\* and leaves the offset unchanged.
C1_NoDoubleDelivery == []C1_Delivered /\ [][C1_IdleNotification]_vars

C1_Witness ==
  \E c \in Calls :
    LET s == call[c].sess
    IN /\ call[c].pc = "done" /\ call[c].live
       /\ call[c].fresh /\ call[c].tpc = "recv" /\ call[c].chan = 0
       /\ Len(delivered[s]) = 2
       /\ \A i \in 1..2 : delivered[s][i].phase = "live" /\ delivered[s][i].by = c
       /\ Msgs(delivered[s]) = Appended(file[s], TRUE)
       /\ file_offsets[s] = Some(6)

\* the effect readFrom is specified to have on a tail read by task c
C2_TailRead(c) ==
  LET s == call[c].sess
      off == file_offsets[s][1]
  IN /\ delivered'[s] =
          delivered[s] \o Events(Appended(SubSeq(file[s], off + 1, Len(file[s])), TRUE), c, "live")
     /\ call'[c].tpc = "store" => call'[c].tnew = CompleteLen(file[s])
     /\ call'[c].tpc = "recv" => CompleteLen(file[s]) = off

\* C2: Partial-line safety. A tail read that starts from an offset on a line
\* boundary delivers exactly the messages of the terminated lines after that
\* offset and moves the offset to just past the last terminated line: an
\* unterminated last line is neither delivered nor counted, so it is read
\* again once its terminator is in the file.
C2_PartialLineSafety ==
  [][\A c \in Calls :
       (/\ call[c].tpc = "recv"
        /\ call'[c].chan < call[c].chan
        /\ file_offsets[call[c].sess] # None
        /\ OnLineBoundary(file[call[c].sess], file_offsets[call[c].sess][1])) => C2_TailRead(c)]_vars

\* the stored offsets lie on line boundaries
C3_OnBoundary ==
  \A s \in Sessions : file_offsets[s] # None => OnLineBoundary(file[s], file_offsets[s][1])

\* no step lowers or removes a stored offset
C3_Monotone ==
  \A s \in Sessions :
    file_offsets[s] # None => (file_offsets'[s] # None /\ file_offsets'[s][1] >= file_offsets[s][1])

\* C3: Offset invariant. The stored offset of every session is 0 or the
\* position just after a line terminator of the file, and it never decreases.
C3_OffsetInvariant == []C3_OnBoundary /\ [][C3_Monotone]_vars

\* C4: Idempotent start. A watch_session call that begins while the registry
\* holds a handle for the session replays nothing.
C4_IdempotentStart ==
  [][\A c \in Calls, s \in Sessions :
       (/\ call[c].pc = "idle"
        /\ call'[c].pc = "replayed"
        /\ call'[c].sess = s
        /\ watchers[s] # 0) => delivered'[s] = delivered[s]]_vars

\* C5: At most one active watch. No session ever has two live file-system
\* subscriptions.
C5_AtMostOneActiveWatch ==
  \A c, d \in Calls :
    (c # d /\ call[c].live /\ call[d].live) => call[c].sess # call[d].sess

\* C6: Delivery ordering. The events one watch emits carry the messages in
\* the order they were appended, and none of its replay events follows one
\* of its live events.
C6_DeliveryOrder ==
  \A s \in Sessions : \A i, j \in DOMAIN delivered[s] :
    (i < j /\ delivered[s][i].by = delivered[s][j].by) =>
      /\ delivered[s][i].msg.content[1] <= delivered[s][j].msg.content[1]
      /\ ~(delivered[s][i].phase = "live" /\ delivered[s][j].phase = "replay")

\* C7: Initial replay. Right after the initial read of a watch_session call
\* (the file not written since), the call has emitted exactly the parseable
\* messages of the file in file order and its initial offset is the byte
\* length of the file.
C7_InitialReplay ==
  \A c \in Calls :
    (call[c].pc = "replayed" /\ call[c].fresh) =>
      LET s == call[c].sess
      IN /\ Msgs(By(delivered[s], c)) = Appended(file[s], FALSE)
         /\ call[c].init = Len(file[s])

\* C8: Idempotent stop. For a session without a registry entry stop_watching
\* can always be taken and changes nothing: not the registry, not any
\* session's watch, offset or deliveries.
C8_IdempotentStop ==
  \A s \in Sessions : watchers[s] = 0 => ENABLED (stop_watching(s) /\ UNCHANGED vars)

C8_Witness ==
  \E s, t \in Sessions :
    /\ watchers[s] = 0
    /\ watchers[t] # 0
    /\ call[watchers[t]].live
    /\ file_offsets[t] # None /\ file_offsets[t][1] > 0
    /\ file_offsets[s] = None

\* C9: Stop cancels delivery. A delivery task whose handle was dropped and
\* that is between iterations starts no further iteration: it takes no
\* queued notification and emits nothing.
C9_StopCancels ==
  [][\A c \in Calls :
       (call[c].pc = "done" /\ ~call[c].live /\ call[c].tpc = "recv") =>
         /\ call'[c].chan >= call[c].chan
         /\ By(delivered'[call[c].sess], c) = By(delivered[call[c].sess], c)]_vars

\* C10: Link state on connect. When connect() returns, the status is
\* Connected if the handshake succeeded and Error if it failed.
C10_ConnectState ==
  \A p \in Procs :
    (proc[p].pc = "ret" /\ proc[p].op = "connect") =>
      IF proc[p].res.ok THEN status = "Connected" ELSE status = "Error"

\* C11: disconnect always ends Disconnected. When disconnect() returns,
\* whatever the status was before and whether or not the close of the
\* connection succeeded, the status is Disconnected, the link stores no
\* connection handle, and the caller gets no failure.
C11_DisconnectState ==
  /\ \A p \in Procs :
       (proc[p].pc = "ret" /\ proc[p].op = "disconnect") =>
         /\ status = "Disconnected"
         /\ session = None
         /\ proc[p].res.ok
  /\ ret.op = "disconnect" => ret.ok

\* disconnect has returned and a connection whose close failed is still open
C11_Witness ==
  \E p \in Procs :
    /\ proc[p].pc = "ret" /\ proc[p].op = "disconnect"
    /\ open # {}
    /\ session = None /\ status = "Disconnected"

\* an exec that returns while the status is not Connected has failed with
\* "Not connected"
C12_NotConnected ==
  \A p \in Procs :
    (proc[p].pc = "ret" /\ proc[p].op = "exec" /\ status # "Connected") =>
      proc[p].res = Result("exec", FALSE, "Not connected")

\* the step of exec leaves the status, the handle and the open connections alone
C12_NoReconnect ==
  \A p \in Procs :
    (proc[p].op = "exec" /\ proc[p].pc = "run" /\ proc'[p].pc = "ret") =>
      UNCHANGED <<status, session, open>>

\* C12: exec requires Connected. While the status is Disconnected,
\* Connecting or Error, exec (and with it read_session_file and
\* send_message_remote) returns the not-connected failure and runs no remote
\* command; and exec never changes the status or opens a connection.
C12_ExecRequiresConnected == []C12_NotConnected /\ [][C12_NoReconnect]_vars

\* C13: Reconnection policy. From the moment connect() has started its
\* handshake the link holds no stale connection: the handle stored before
\* the call is closed and removed before the handshake is attempted, so it
\* is gone while the handshake runs and after a handshake that failed.
C13_ReconnectClosesStale ==
  \A p \in Procs :
    (/\ proc[p].op \in {"connect", "test"}
     /\ \/ proc[p].pc = "handshake"
        \/ proc[p].pc = "ret" /\ proc[p].res.val = "SSH connect failed") =>
      session = None

\* a ChatMessage the codec accepts
ValidMessage(m) == m.role \in {"user", "assistant"} /\ m.content # <<>>

\* a line break in a line: a terminator byte, or a raw line feed in one of
\* the strings of a record
HasLineBreak(l) ==
  \E i \in DOMAIN l :
    \/ l[i][1] = "nl"
    \/ /\ l[i][1] = "obj"
       /\ l[i][2].message # None
       /\ \E j \in DOMAIN l[i][2].message[1].content :
            LET t == l[i][2].message[1].content[j].text
            IN t # None /\ \E k \in DOMAIN t[1] : t[1][k] = LF

\* C19: Round-trip law. For every valid ChatMessage (role user or
\* assistant, content not empty) the line append_message encodes contains no
\* line break, and parse_jsonl_line of that line is the message itself.
C19_RoundTrip ==
  ValidMessage(chat) =>
    /\ encoded # None => ~HasLineBreak(encoded[1])
    /\ decoded # None => decoded[1] = Some(chat)

\* a message with a line feed and a quote in its content has made the trip
C19_Witness ==
  /\ chat = ChatMessage("assistant", <<LF, Quote>>)
  /\ decoded = Some(Some(chat))

\* C20: Shell-escaping. The command send_message_remote builds splits, by
\* the quoting rules of the POSIX shell, into the eight words openclaw,
\* agent, --agent, the agent id, --session-id, the session id, --message and
\* the message text: the text is one intact word, it ends no quoting and
\* adds no word or operator.
C20_ShellEscaping ==
  words # None =>
    words[1] = Some(<< <<"openclaw">>, <<"agent">>, <<"--agent">>, AgentId,
                       <<"--session-id">>, SessionId, <<"--message">>, prompt >>)

\* a text with a single quote and a ; has been built into a command and split
C20_Witness ==
  /\ prompt = <<"'", ";">>
  /\ words # None
  /\ words[1] # None
  /\ words[1][1][8] = prompt

\* a caller that is inside a Remote Link operation
InOperation(p) == proc[p].pc \in {"run", "handshake", "exec", "ret"}

\* one operation at a time, and it is the lock holder's
C14_OneAtATime ==
  /\ \A p, q \in Procs : (InOperation(p) /\ InOperation(q)) => p = q
  /\ \A p \in Procs : InOperation(p) <=> lock = p
  /\ \A p \in Procs : proc[p].pc = "wait" => proc[p].res = NoRet

\* a waiting caller stays waiting until it takes the free lock, and an
\* operation keeps the lock until it returns
C14_Waits ==
  \A p \in Procs :
    /\ proc[p].pc = "wait" =>
         \/ proc'[p] = proc[p]
         \/ proc'[p].pc = "run" /\ lock = 0 /\ lock' = p
    /\ (InOperation(p) /\ InOperation(p)') => lock' = p
    /\ (InOperation(p) /\ ~InOperation(p)') => (proc[p].pc = "ret" /\ lock' = 0)

\* C14: Remote Link mutual exclusion. Under every interleaving of callers at
\* most one Remote Link operation is in progress, the caller inside it holds
\* the lock from its first step to its return, and a caller that arrives
\* while the lock is held has no failure: it stays waiting and leaves the
\* wait only by taking the free lock.
C14_MutualExclusion == []C14_OneAtATime /\ [][C14_Waits]_vars

\* one caller is in the handshake of connect while another waits for the lock
C14_Witness ==
  \E p, q \in Procs :
    /\ p # q
    /\ proc[p].pc = "handshake" /\ lock = p
    /\ proc[q].pc = "wait" /\ proc[q].op = "exec"

\* a call that starts takes the branch of the flag as it is at that moment
C15_ReadsFlag ==
  /\ remote_mode =>
       /\ \A p \in Procs :
            (proc[p].pc = "idle" /\ proc'[p].pc # "idle") =>
              (proc'[p].pc = "wait" /\ proc'[p].op \in {"load", "send"})
       /\ proc' = proc => UNCHANGED <<ret, file, written, delivered>>
  /\ ~remote_mode =>
       \A p \in Procs :
         (proc[p].pc = "idle" /\ proc'[p].pc # "idle") => proc'[p].pc = "agent"

\* the remote branch touches no local log and emits nothing, the local
\* branch touches neither the Remote Link nor its lock
C15_OneSide ==
  \A p \in Procs :
    /\ (proc'[p] # proc[p] /\ proc'[p].pc = "wait") => UNCHANGED <<file, written, delivered>>
    /\ (proc'[p] # proc[p] /\ InOperation(p)) => UNCHANGED <<file, written, delivered>>
    /\ (proc'[p] # proc[p] /\ (proc[p].pc = "agent" \/ proc'[p].pc = "agent")) =>
         UNCHANGED <<status, session, open, lock>>
    /\ proc' = proc => UNCHANGED <<status, session, open, lock>>

\* C15: Facade dispatch. cmd_load_session and cmd_send_message branch on the
\* value remote_mode has when the call starts: with the flag set the call
\* waits for the Remote Link and from then on changes no local log and emits
\* no event; with the flag clear it reads or writes the local log and runs
\* the local agent, and changes neither the Remote Link nor its lock.
C15_FacadeDispatch == [][C15_ReadsFlag /\ C15_OneSide]_vars

\* a local send waits for its agent while a later call, started after the
\* flag was set, runs on the Remote Link
C15_Witness ==
  \E p, q \in Procs :
    /\ proc[p].pc = "agent"
    /\ proc[q].pc = "run" /\ proc[q].op = "send"
    /\ remote_mode
    /\ file[Chat] # <<>>

\* C16: Watch dispatch. While remote_mode is set no cmd_watch_session call
\* starts a Session Tailer: no call leaves its idle state, so there is no
\* replay, no file-system subscription, no delivery task and no registry
\* entry made in remote mode.
C16_WatchDispatch ==
  [][remote_mode => \A c \in Calls : call[c].pc = "idle" => call'[c].pc = "idle"]_vars

\* while the agent runs for a send, the user line of that send is in the log
C17_UserLineFirst ==
  \A p \in Procs :
    proc[p].pc = "agent" =>
      LET s == proc[p].sess
          k == proc[p].at
          lines == Appended(file[s], TRUE)
      IN /\ k \in 1..Len(lines)
         /\ lines[k] = ChatMessage("user", <<k>>)

\* the log grows by the user line of a send that starts, or by the assistant
\* line of a send whose agent has returned a response; a send whose agent
\* failed returns the failure and writes nothing
C17_Appends ==
  /\ \A p \in Procs :
       (proc[p].pc = "agent" /\ proc'[p].pc = "idle") =>
         LET s == proc[p].sess
             n == ObjCount(file[s]) + 1
         IN /\ ret'.op = "send"
            /\ IF ret'.ok
               THEN /\ file'[s] = file[s] \o encodeLine(ChatMessage("assistant", <<n>>)) \o <<NL>>
                    /\ proc[p].at < n
               ELSE file' = file
  /\ \A s \in Sessions :
       file'[s] # file[s] =>
         \E p \in Procs :
           /\ proc[p].sess = s \/ proc'[p].sess = s
           /\ \/ /\ proc[p].pc = "idle" /\ proc'[p].pc = "agent"
                 /\ file'[s] = file[s] \o encodeLine(ChatMessage("user", <<proc'[p].at>>)) \o <<NL>>
              \/ proc[p].pc = "agent" /\ proc'[p].pc = "idle" /\ ret'.ok

\* C17: Local send sequence. In local mode cmd_send_message appends the user
\* message before the agent is invoked and appends the assistant message
\* only after the agent has returned a response, after the user line of the
\* same send; when the agent fails the call returns the failure, the user
\* line stays and no assistant line is written.
C17_LocalSendSequence == []C17_UserLineFirst /\ [][C17_Appends]_vars

\* two sends have written their user lines; one got its response, the agent
\* of the other failed
C17_Witness ==
  /\ written[Chat] = <<ChatMessage("user", <<1>>), ChatMessage("user", <<2>>),
                       ChatMessage("assistant", <<3>>)>>
  /\ ret = Result("send", FALSE, "OpenClaw error")
  /\ \A p \in Procs : proc[p].pc = "idle"

\* load_session gives the messages append_message was called with, in call
\* order, and nothing for a log that does not exist
C18_ReadAll ==
  \A s \in Sessions :
    /\ load_session(s) = written[s]
    /\ ~PathExists(s) => load_session(s) = <<>>

\* a cmd_load_session call that returns in local mode returns just that
C18_Returned ==
  (proc' = proc /\ ret' # ret /\ ret'.op = "load") =>
    \E s \in Sessions : ret' = Result("load", TRUE, written[s])

C21_Frame ==
  \A p \in Procs :
    (proc[p].op = "configure" /\ proc[p].pc = "run" /\ proc'[p].pc = "ret") =>
      /\ config' = proc[p].arg
      /\ UNCHANGED <<status, session, open>>

\* a connection gets into the link only by the handshake of a connect, and
\* it is one to the destination of the configuration of that moment
C21_AtConnect ==
  (session' # session /\ session' # None) =>
    /\ \E p \in Procs : proc[p].pc = "handshake" /\ proc[p].op \in {"connect", "test"}
    /\ session'[1].dest = config

\* C21: Replacing the SshConfig changes only the stored configuration: the
\* status, the stored connection handle (with the destination it was opened
\* to) and the open connections are unchanged, and the new configuration is
\* used only by the next connect(), whose connection goes to it.
C21_Configure == [][C21_Frame /\ C21_AtConnect]_vars

\* the configuration was replaced while the link stays connected to the
\* destination of the old one
C21_Witness ==
  /\ ret = Result("configure", TRUE, "none")
  /\ config = "other"
  /\ status = "Connected"
  /\ session # None
  /\ session[1].dest = "default"
  /\ session[1].id \in open

\* C28: Link state/handle consistency. Whenever no Remote Link operation
\* holds the lock, the status is Connected if and only if a connection
\* handle is stored, and the status is not Connecting.
C28_StateHandleConsistency ==
  lock = 0 =>
    /\ (status = "Connected") <=> (session # None)
    /\ status # "Connecting"

\* C22: Delivery completeness. With a watch on a session that is never
\* stopped, a change notification for every write made while the
\* subscription is registered and fairly scheduled tasks, every message
\* whose terminated line is in the log after the watch_session call began is
\* eventually delivered to the subscriber.
C22_DeliveryCompleteness ==
  \A s \in Sessions : \A k \in 1..MaxLines :
    (Len(written[s]) >= k) ~>
      (/\ Len(written[s]) >= k
       /\ \E i \in DOMAIN delivered[s] : delivered[s][i].msg = written[s][k])

\* the step of stop_watching that removes a handle releases its subscription
C23_Released ==
  \A s \in Sessions :
    (watchers[s] # 0 /\ watchers'[s] = 0) => ~call'[watchers[s]].live

\* C23: Stop terminates the task. When stop_watching removes the handle of a
\* watch, the file-system subscription of that watch is released in that
\* step, and under fair scheduling its delivery task eventually terminates.
C23_StopTerminates ==
  /\ [][C23_Released]_vars
  /\ \A c \in Calls : (call[c].tpc # "none" /\ ~call[c].live) ~> (call[c].tpc = "exit")

\* a stopped watch whose task has taken its queued notification and ended
C23_Witness ==
  \E c \in Calls :
    /\ call[c].tpc = "exit"
    /\ watchers[call[c].sess] = 0
    /\ \E i \in DOMAIN delivered[call[c].sess] :
         delivered[call[c].sess][i].by = c /\ delivered[call[c].sess][i].phase = "live"

\* a watch of the session that is being set up or is registered and live
ActiveWatch(s) ==
  \E c \in Calls :
    /\ call[c].sess = s
    /\ \/ call[c].pc = "subscribed"
       \/ call[c].pc = "done" /\ watchers[s] = c

\* the offset entry of a session exists exactly while the session has a watch
C24_Lifecycle == \A s \in Sessions : (file_offsets[s] # None) <=> ActiveWatch(s)

\* an existing offset entry is written by the task of the session's watch only
C24_OwnerWrites ==
  \A s \in Sessions :
    (file_offsets[s] # None /\ file_offsets'[s] # file_offsets[s]) =>
      \E c \in Calls :
        /\ watchers[s] = c
        /\ call[c].tpc = "store"
        /\ call'[c].tpc = "recv"

\* C24: TailState ownership and lifecycle. A session's offset entry exists
\* exactly while the session has an active watch: it is created when the
\* watch starts and is gone once the watch is stopped; while it exists it is
\* written only by the delivery task of that watch.
C24_OffsetOwnership == []C24_Lifecycle /\ [][C24_OwnerWrites]_vars

\* task c takes a notification and its read fails: the file is missing, or
\* it cannot be read
FailedRead(c) ==
  /\ call[c].tpc = "recv"
  /\ call'[c].chan < call[c].chan
  /\ \/ ~PathExists(call[c].sess)
     \/ call'[c].err

\* C25: Failure isolation. An iteration of a delivery task whose read fails
\* (the file is missing or cannot be read) delivers nothing, leaves the
\* offsets unchanged and leaves the task waiting for its next notification
\* with its subscription as it was; the registry and the calls, tasks,
\* offsets and deliveries of the other watches are unchanged.
C25_FailureIsolation ==
  [][\A c \in Calls :
       FailedRead(c) =>
         /\ UNCHANGED <<delivered, file_offsets, watchers, file>>
         /\ call'[c].tpc = "recv"
         /\ call'[c].live = call[c].live
         /\ \A d \in Calls \ {c} : call'[d] = call[d]]_vars

\* a task whose last read failed waits for its next notification with a
\* line of its log still unread, and the watch of another session has
\* delivered a message
C25_Witness ==
  \E c, d \in Calls :
    /\ c # d
    /\ call[c].err /\ call[c].tpc = "recv" /\ call[c].live
    /\ file_offsets[call[c].sess] # None
    /\ file_offsets[call[c].sess][1] < Len(file[call[c].sess])
    /\ call[d].sess # call[c].sess
    /\ \E i \in DOMAIN delivered[call[d].sess] :
         delivered[call[d].sess][i].by = d /\ delivered[call[d].sess][i].phase = "live"

\* no step rewrites or removes bytes of a log
C26_Prefix == \A s \in Sessions : IsPrefix(file[s], file'[s])

\* when append_message returns, the line of its message is one of the
\* terminated lines of the log
C26_OneLine ==
  \A p \in Procs :
    (proc[p].op = "append" /\ proc[p].pc = "newline" /\ proc'[p].pc = "idle") =>
      LET bytes == file'[proc[p].sess]
          ls == Lines(bytes)
      IN /\ bytes[Len(bytes)] = NL
         /\ \E i \in DOMAIN ls : ls[i] = encodeLine(RecordMsg(proc[p].at))

\* C26: Append-only log. Under every interleaving of append_message calls
\* with each other and with tail reads, the content of a log at an earlier
\* moment is a prefix of its content at every later moment, and every
\* append_message call has added exactly one complete terminated line, that
\* of its message, when it returns.
C26_AppendOnly == [][C26_Prefix /\ C26_OneLine]_vars

\* C27: Single emission under send + watch. With one local watch on a
\* session, the assistant message of a local send is emitted as chat:message
\* for that session at most once, the emission of cmd_send_message and the
\* live emissions of the watch counted together (the replay of a watch that
\* starts later is not counted).
C27_SingleEmission ==
  \A s \in Sessions : \A i, j \in DOMAIN delivered[s] :
    (/\ i # j
     /\ delivered[s][i].msg.role = "assistant"
     /\ delivered[s][i].phase \in {"send", "live"}
     /\ delivered[s][j].phase \in {"send", "live"}) =>
      delivered[s][i].msg # delivered[s][j].msg

\* c is the call of a stopped watch, d that of a later watch of the same
\* session that has stored its initial offset
Restarted(c, d) ==
  /\ c # d
  /\ call[c].sess = call[d].sess
  /\ call[c].pc = "done" /\ ~call[c].live
  /\ call[d].pc \in {"subscribed", "done"} /\ call[d].live

\* C29: Restart race. When stop_watching(s) is followed by watch_session(s),
\* then from the moment the new watch has stored its initial offset the
\* delivery task of the stopped watch emits no message and does not write
\* the offset of the session.
C29_RestartRace ==
  [][\A c, d \in Calls :
       Restarted(c, d) =>
         /\ By(delivered'[call[c].sess], c) = By(delivered[call[c].sess], c)
         /\ call[c].tpc = "store" => call'[c].tpc = "store"]_vars

\* a thread of the tailer that is at a lock() call
AtLock(c) ==
  \/ call[c].pc \in {"replayed", "l64_state", "l66", "l71", "subscribed"}
  \/ call[c].tpc \in {"l107", "store"}

\* C30: the locks of the tailer never deadlock: whenever a caller or a task is
\* at a lock() call, some lock or unlock step can be taken; the registry lock
\* is held only by a watch_session caller between its lock and unlock lines,
\* never by a task; a task that awaits a notification or reads the file holds
\* no lock, so a pending read leaves stop_watching and the first lock of
\* watch_session of any session able to run whenever no caller holds the
\* registry lock
C30_LockDiscipline ==
  /\ (\E c \in Calls : AtLock(c)) => ENABLED LockStep
  /\ state_lock # None =>
       \E c \in Calls : /\ state_lock = Caller(c)
                        /\ call[c].pc \in {"l64_state", "l64_both", "l69", "l94"}
  /\ \A c \in Calls :
       call[c].tpc \in {"recv", "l112"} =>
         /\ offsets_lock # Task(c)
         /\ state_lock = None =>
              /\ \A s \in Sessions : ENABLED stop_watching_locked(s)
              /\ \A d \in Calls : call[d].pc = "replayed" => ENABLED clone_lock_state(d)

\* a caller holds the registry lock and waits at line 64 for the offsets lock,
\* which the task of another session holds
C30_Witness ==
  \E c, d \in Calls :
    /\ call[c].pc = "l64_state"
    /\ state_lock = Caller(c)
    /\ offsets_lock = Task(d)
    /\ call[d].sess # call[c].sess

====
